---- MODULE Spec2Model ----
(***************************************************************************)
(* Reconciliation of an incoming batch of incident records against a      *)
(* store (import_records.py): remove_dups_fs (hosted feature service),    *)
(* remove_dups_fc (local feature class), _prep_source_table and the       *)
(* chunked writer editFeatures.                                           *)
(*                                                                         *)
(* Values.  A field value is a tuple: None is the empty tuple, a text is  *)
(* <<"...">>, a native datetime is <<ticks>> (two ticks per second, so    *)
(* the odd tick is the sub-second part) and a date text in the format     *)
(* "%m/%d/%Y %H:%M" is <<month, year>> (its leading and its later         *)
(* component; a model year has two months).  An Integer id is written as  *)
(* its decimal numeral.  Location and summary values are never None here  *)
(* and are plain strings.                                                  *)
(***************************************************************************)
EXTENDS Integers, Sequences, FiniteSets, TLC

\* ---- bounds of the model ------------------------------------------------
MaxBatch == 3
MaxStore == 1
MaxTick == 2
MaxFeat == 250
MaxFaulty == 2
MaxDigits == 14

\* ---- program constants --------------------------------------------------
ChunkSize == 100

None == <<>>

\* the matching fields: id_field, dt_field, one location field, one other
fields == <<"id", "dt", "loc", "att">>
loc_fields == <<"loc">>

\* ---- input domains ------------------------------------------------------
\* the two source/target schemas: numeric id with native dates, text id with
\* date texts
Schemas ==
  { [idType |-> "Integer", dtKind |-> "Date"],
    [idType |-> "String", dtKind |-> "String"] }

IdVals(idType) ==
  IF idType = "Integer" THEN { <<"1">>, <<"2">> } ELSE { <<"1">>, <<"None">> }

NativeDates == { <<t>> : t \in 0..MaxTick }
StringDates == { <<0, 0>>, <<1, 0>>, <<0, 1>> }
BatchDates(dtKind) == IF dtKind = "Date" THEN NativeDates ELSE StringDates
StoreDates == { <<t>> : t \in 1..MaxTick }

BatchLocs == { "MAIN ST" }
StoreLocs == { "MAIN ST", "main st", "OAK AV" }
BatchAtts == { "fire", "flood" }
StoreAtts == { "fire" }

\* rows of the spreadsheet without their OBJECTID: complete rows, rows with
\* a null id and rows with a null date
BatchRows(s) ==
  [id : IdVals(s.idType), dt : BatchDates(s.dtKind), loc : BatchLocs, att : BatchAtts]
  \cup [id : {None}, dt : BatchDates(s.dtKind), loc : BatchLocs, att : {"fire"}]
  \cup [id : IdVals(s.idType), dt : {None}, loc : BatchLocs, att : {"fire"}]

StoreRows(s) ==
  [id : IdVals(s.idType), dt : StoreDates, loc : StoreLocs, att : StoreAtts]

SeqsUpTo(S, n) == UNION { [1..k -> S] : k \in 0..n }

\* CopyRows_management / the service give every row an OBJECTID
WithOid(q) ==
  [i \in 1..Len(q) |->
     [oid |-> i, id |-> q[i].id, dt |-> q[i].dt, loc |-> q[i].loc, att |-> q[i].att]]

\* ---- state --------------------------------------------------------------
VARIABLES
  backend,        \* "fs": remove_dups_fs, "fc": remove_dups_fc
  schema,         \* field types of the id and the date field
  new_features,   \* the incoming batch (never changed)
  cur_features0,  \* the store before the pass (never changed)
  tempTable,      \* the working table, rows in cursor order
  cur_features,   \* the store
  null_records,   \* OBJECTIDs of the rows written to the null report
  all_ids,        \* fs: str(id) of the rows left after the null rows went
  att_dict,       \* fc: id -> values of the most recent report
  cursor,         \* rows of the store still to visit
  updateFeatures, \* fs: service rows queued for the batched update
  update_count,
  del_count,
  pc,
  \* editFeatures: the number of features, the mode, the locals, the result
  \* of every request issued and the number of records the service holds
  numFeat, mode, featuresProcessed, results, committed, retval, error, epc,
  \* a run of a script: which script, its parameters, its position, the
  \* mutations issued to the store and the configuration file on disk
  script, params, rpc, store_ops, config_file,
  \* a call of a comparison function: its name, its two arguments, its result
  fn, fn_args, fn_out,
  \* a call of a chunked helper of featureservicetools: which helper, the
  \* number of features it works on, its chunksize, its loop position, the ids
  \* collected for the next chunk, the requests sent and the deleted total
  helper, featCount, chunksize, idx, idlist, requests, totalDeleted, hpc,
  \* the outcome of the first of two passes over the same batch (None during
  \* the first pass)
  first_pass

passVars == << backend, schema, new_features, cur_features0, tempTable, cur_features,
               null_records, all_ids, att_dict, cursor, updateFeatures, update_count,
               del_count, pc >>
editVars == << numFeat, mode, featuresProcessed, results, committed, retval, error, epc >>
runVars == << script, params, rpc, store_ops, config_file >>
fnVars == << fn, fn_args, fn_out >>
svcVars == << helper, featCount, chunksize, idx, idlist, requests, totalDeleted, hpc >>
auxVars == << runVars, fnVars, svcVars, first_pass >>
vars == << passVars, editVars, auxVars >>


\* ---- helpers ------------------------------------------------------------
Range(q) == { q[i] : i \in 1..Len(q) }
Vals(r) == [id |-> r.id, dt |-> r.dt, loc |-> r.loc, att |-> r.att]

\* str(): None prints as the text None
\* (a value written with its Python type, <<"int", "1042">>, <<"float",
\* "1042.0">> or <<"str", "1042.0">>, prints as the text of its numeral)
str(v) ==
  IF v = None THEN <<"None">>
  ELSE IF Len(v) = 2 /\ v[1] \in { "int", "float", "str" } THEN <<"str", v[2]>>
  ELSE v

\* str.upper() and str.replace(',', '') on the location texts
upper(s) == IF s = "main st" THEN "MAIN ST" ELSE s
strip_commas(s) ==
  IF s = "1,000 OAK AV" THEN "1000 OAK AV" ELSE IF s = "1,000" THEN "1000" ELSE s

\* float.is_integer() and int(): a numeral with a decimal point stands for a
\* float, every other location value is a text or an int and has no
\* is_integer (AttributeError)
is_integer(v) == v = "1000.0"
int_of(v) == IF v = "1000.0" THEN "1000" ELSE v

\* datetime.strptime(text, "%m/%d/%Y %H:%M"): the later component of the
\* text weighs more than the leading one; the result has no sub-second part
strptime(v) == (v[2] * 2 + v[1]) * 2

\* the date texts that are not in the configured format (here: a month the
\* model year does not have); strptime raises ValueError for them
Unparseable == { <<2, 0>> }

\* strptime taken to raise nothing but the TypeError the callers handle
strptime_raises_never(v) == FALSE

strptime_raises(v) == v \in Unparseable

\* datetime.replace(microsecond = 0)
replace_microsecond(t) == t - (t % 2)

\* a spreadsheet date as a datetime: taken as it is if it is one, parsed
\* otherwise
to_datetime(v) == IF Len(v) = 1 THEN v[1] ELSE strptime(v)

\* the order of "ORDER BY dt_field": datetimes by value, texts character
\* by character
sql_less(a, b) ==
  IF Len(a) = 1 THEN a[1] < b[1]
  ELSE a[1] < b[1] \/ (a[1] = b[1] /\ a[2] < b[2])

\* cast_id: int() of a None raises TypeError, which cast_id does not catch
cast_id_raises(idVal, field_type) == field_type # "String" /\ idVal = None
\* int() raises ValueError for a text that is not the numeral of an integer
int_raises_ValueError(v) == Len(v) = 2 /\ v[1] = "str" /\ v[2] # "1042"

\* int() of a typed value: a float loses its fraction, the numeral of an
\* integer is read; the ids of the passes are numerals already
py_int(v) ==
  IF Len(v) = 2 /\ v[1] \in { "int", "float", "str" } THEN <<"int", "1042">> ELSE v

cast_id(idVal, field_type) ==
  IF field_type = "String" THEN str(idVal)
  ELSE IF int_raises_ValueError(idVal) THEN str(idVal)
  ELSE py_int(idVal)

\* cast_id of scripts/import_publish_incidents.py
cast_id_scripts(idVal, field_type) ==
  IF field_type = "String" THEN str(idVal)
  ELSE IF int_raises_ValueError(idVal) THEN str(idVal)
  ELSE py_int(idVal)

\* whether the type of the target's summary field can hold the value: the
\* values of BatchAtts are of the field's type, "n/a" is of another type
field_accepts(v) == v # "n/a"

\* compare_locations_fs with the test of the two texts inverted
compare_locations_fs_inverted(servicerow, tablerow) ==
  \E i \in 1..Len(loc_fields) :
     /\ loc_fields[i] \in Range(fields)
     /\ strip_commas(upper(tablerow.loc)) = strip_commas(upper(servicerow.loc))

compare_locations_fs(servicerow, tablerow) ==
  \E i \in 1..Len(loc_fields) :
     /\ loc_fields[i] \in Range(fields)
     /\ LET table_val == IF is_integer(tablerow.loc) THEN int_of(tablerow.loc)
                                                     ELSE tablerow.loc
            table_str == strip_commas(upper(table_val))
            serv_str == IF is_integer(servicerow.loc) THEN int_of(servicerow.loc)
                        ELSE strip_commas(upper(servicerow.loc))
        IN table_str # serv_str

compare_locations_fc(fcrow, id_vals) ==
  \E i \in 1..Len(loc_fields) :
     /\ loc_fields[i] \in Range(fields)
     /\ LET dict_val == IF is_integer(id_vals.loc) THEN int_of(id_vals.loc) ELSE id_vals.loc
            row_val == IF is_integer(fcrow.loc) THEN int_of(fcrow.loc) ELSE fcrow.loc
        IN upper(dict_val) # upper(row_val)

\* compare_dates_fc with the two dates of the comparison swapped
compare_dates_fc_swapped(row, id_vals) ==
  replace_microsecond(to_datetime(row.dt)) < replace_microsecond(to_datetime(id_vals.dt))

\* TRUE when the row is more recent than the dictionary entry
compare_dates_fc(row, id_vals) ==
  replace_microsecond(to_datetime(id_vals.dt)) < replace_microsecond(to_datetime(row.dt))

\* the test of remove_dups_fs whether the spreadsheet record is older than
\* the service record
csv_older(csvdup, servicerow) ==
  replace_microsecond(to_datetime(csvdup.dt)) < replace_microsecond(servicerow.dt[1])

\* compare_dates of scripts/import_publish_incidents.py: the results of the
\* two replace(microsecond = 0) calls are dropped
compare_dates(row, id_vals) == to_datetime(id_vals.dt) < to_datetime(row.dt)

update_dictionary_fc(values, dictionary) == Vals(values)

\* ---- _prep_source_table -------------------------------------------------
NullRows(q) == { q[i].oid : i \in { j \in 1..Len(q) : q[j].id = None \/ q[j].dt = None } }

\* ids that occur more than once in all_ids
DupIds(ids) ==
  { x \in Range(ids) : Cardinality({ i \in 1..Len(ids) : ids[i] = x }) > 1 }

\* the rows an "ORDER BY dt_field DESC" cursor over the rows of one id may
\* return first: the order of rows with equal keys is the database's
FirstDesc(q, dup_id) ==
  { q[i].oid : i \in { j \in 1..Len(q) :
       /\ str(q[j].id) = dup_id
       /\ \A k \in 1..Len(q) : str(q[k].id) = dup_id => ~ sql_less(q[j].dt, q[k].dt) } }

\* the collapse taking the rows of the ids that occur once along
Collapsed_all(q, dup_ids, keep) ==
  SelectSeq(q, LAMBDA r : str(r.id) \in dup_ids /\ r.oid = keep[str(r.id)])

\* the working table after the duplicates of every dup_id but the first row
\* of its cursor are deleted
Collapsed(q, dup_ids, keep) ==
  SelectSeq(q, LAMBDA r : str(r.id) \notin dup_ids \/ r.oid = keep[str(r.id)])

\* ---- initial states -----------------------------------------------------
EditIdle ==
  /\ numFeat = 0 /\ mode = "add" /\ featuresProcessed = 0 /\ results = <<>>
  /\ committed = 0 /\ retval = FALSE /\ error = FALSE /\ epc = "idle"

\* batches with faulty values: date texts that cannot be parsed and summary
\* values the target field cannot hold
FaultyRows(s) ==
  [id : IdVals(s.idType),
   dt : BatchDates(s.dtKind) \cup (IF s.dtKind = "String" THEN Unparseable ELSE {}),
   loc : BatchLocs,
   att : { "fire", "n/a" }]

SvcIdle ==
  /\ helper = "none" /\ featCount = 0 /\ chunksize = 0 /\ idx = 0 /\ idlist = {}
  /\ requests = <<>> /\ totalDeleted = 0 /\ hpc = "idle"

RunIdle ==
  /\ script = "none" /\ params = <<>> /\ rpc = "idle" /\ store_ops = <<>>
  /\ config_file = None

FnIdle == fn = "none" /\ fn_args = <<>> /\ fn_out = <<>>

Init ==
  /\ backend \in { "fs", "fc" }
  /\ schema \in Schemas
  /\ new_features \in { WithOid(q) : q \in SeqsUpTo(BatchRows(schema), MaxBatch) }
  /\ cur_features0 \in { WithOid(q) : q \in SeqsUpTo(StoreRows(schema), MaxStore) }
  /\ tempTable = new_features
  /\ cur_features = cur_features0
  /\ null_records = {}
  /\ all_ids = <<>>
  /\ att_dict = <<>>
  /\ cursor = <<>>
  /\ updateFeatures = <<>>
  /\ update_count = 0
  /\ del_count = 0
  /\ pc = "start"
  /\ EditIdle
  /\ RunIdle /\ FnIdle /\ SvcIdle /\ first_pass = None

InitFaulty ==
  /\ backend \in { "fs", "fc" }
  /\ schema \in Schemas
  /\ new_features \in { WithOid(q) : q \in SeqsUpTo(FaultyRows(schema), MaxFaulty) }
  /\ cur_features0 \in { WithOid(q) : q \in SeqsUpTo(StoreRows(schema), MaxStore) }
  /\ tempTable = new_features
  /\ cur_features = cur_features0
  /\ null_records = {}
  /\ all_ids = <<>>
  /\ att_dict = <<>>
  /\ cursor = <<>>
  /\ updateFeatures = <<>>
  /\ update_count = 0
  /\ del_count = 0
  /\ pc = "start"
  /\ EditIdle
  /\ RunIdle /\ FnIdle /\ SvcIdle /\ first_pass = None

\* ---- remove_dups_fs -----------------------------------------------------
\* _prep_source_table, then the query for the ids the service already holds.
\* With a single common id the where clause is the text of a Python tuple
\* with a trailing comma; whether the service resolves or rejects it is the
\* service's choice.
FsPrep ==
  /\ backend = "fs" /\ pc = "start"
  /\ LET nulls == NullRows(tempTable)
         t1 == SelectSeq(tempTable, LAMBDA r : r.oid \notin nulls)
         ids == [i \in 1..Len(t1) |-> str(t1[i].id)]
         dup_ids == DupIds(ids)
         service_ids == { str(cur_features[i].id) : i \in 1..Len(cur_features) }
         common_ids == Range(ids) \cap service_ids
     IN /\ null_records' = nulls
        /\ all_ids' = ids
        /\ \E keep \in [dup_ids -> 1..Len(tempTable)] :
             /\ \A d \in dup_ids : keep[d] \in FirstDesc(t1, d)
             /\ tempTable' = Collapsed(t1, dup_ids, keep)
        /\ del_count' = Cardinality(nulls) + (Len(t1) - Len(tempTable'))
        /\ \/ /\ common_ids = {}
              /\ pc' = "done"
              /\ cursor' = <<>>
           \/ /\ common_ids # {}
              /\ pc' = "fs_rows"
              /\ cursor' = SelectSeq(cur_features, LAMBDA f : str(f.id) \in common_ids)
           \/ /\ Cardinality(common_ids) = 1
              /\ pc' = "aborted"
              /\ cursor' = <<>>
  /\ UNCHANGED auxVars
  /\ UNCHANGED << backend, schema, new_features, cur_features0, cur_features, att_dict,
                  updateFeatures, update_count, editVars >>

\* the values set on the service row (field_info): the date as the epoch
\* value of the spreadsheet date, the other fields as they are
ValueToSet(csvdup) ==
  [id |-> csvdup.id, dt |-> << to_datetime(csvdup.dt) >>, loc |-> csvdup.loc, att |-> csvdup.att]

\* updateNeeded with the loop over field_info stopping one field early
updateNeeded_short(servicerow, csvdup) ==
  LET v == ValueToSet(csvdup)
  IN \/ str(servicerow.id) # str(v.id)
     \/ servicerow.dt # v.dt
     \/ servicerow.loc # v.loc

updateNeeded(servicerow, csvdup) ==
  LET v == ValueToSet(csvdup)
  IN \/ str(servicerow.id) # str(v.id)
     \/ servicerow.dt # v.dt
     \/ servicerow.loc # v.loc
     \/ servicerow.att # v.att

set_value(servicerow, v) ==
  [oid |-> servicerow.oid, id |-> v.id, dt |-> v.dt, loc |-> v.loc, att |-> v.att]

\* the body of "for csvdup in csvdups" for the rows of the working table
\* with the OBJECTIDs todo; st carries the locals the body changes and
\* whether strptime raised (the rows after that one are not visited)
RECURSIVE fs_csvdups(_, _, _)
fs_csvdups(todo, st, idVal) ==
  IF todo = <<>> THEN st
  ELSE LET csvdup == Head(todo)
           deleted == SelectSeq(st.tempTable, LAMBDA r : r.oid # csvdup.oid)
           need == updateNeeded(st.servicerow, csvdup)
           newrow == set_value(st.servicerow, ValueToSet(csvdup))
           next ==
             IF csv_older(csvdup, st.servicerow)
               THEN [st EXCEPT !.tempTable = deleted, !.del_count = @ + 1]
             ELSE IF compare_locations_fs(st.servicerow, csvdup)
               THEN [st EXCEPT !.cur_features = SelectSeq(@, LAMBDA f : str(f.id) # str(idVal))]
             ELSE IF need
               THEN [st EXCEPT !.tempTable = deleted,
                               !.servicerow = newrow,
                               !.updateFeatures = Append(@, newrow),
                               !.update_count = @ + 1]
             ELSE [st EXCEPT !.tempTable = deleted]
       IN IF strptime_raises(csvdup.dt)
            THEN [st EXCEPT !.raised = TRUE]
            ELSE fs_csvdups(Tail(todo), next, idVal)

\* one iteration of "for servicerow in curFeaturesFS.features"
FsRow ==
  /\ backend = "fs" /\ pc = "fs_rows" /\ cursor # <<>>
  /\ LET servicerow == Head(cursor)
         idVal == cast_id(servicerow.id, schema.idType)
         csvdups == SelectSeq(tempTable, LAMBDA r : r.id = idVal)
         st == fs_csvdups(csvdups,
                          [tempTable |-> tempTable, cur_features |-> cur_features,
                           servicerow |-> servicerow, updateFeatures |-> updateFeatures,
                           update_count |-> update_count, del_count |-> del_count,
                           raised |-> FALSE],
                          idVal)
     IN /\ pc' = IF st.raised THEN "ValueError" ELSE pc
        /\ tempTable' = st.tempTable
        /\ cur_features' = st.cur_features
        /\ updateFeatures' = st.updateFeatures
        /\ update_count' = st.update_count
        /\ del_count' = st.del_count
  /\ cursor' = Tail(cursor)
  /\ UNCHANGED auxVars
  /\ UNCHANGED << backend, schema, new_features, cur_features0, null_records, all_ids,
                  att_dict, editVars >>

\* the service after an update request: a row is replaced by the last
\* queued feature with its OBJECTID
applyUpdates(store, updates) ==
  [i \in 1..Len(store) |->
     LET us == { j \in 1..Len(updates) : updates[j].oid = store[i].oid }
     IN IF us = {} THEN store[i]
        ELSE updates[CHOOSE j \in us : \A k \in us : k <= j]]

\* editFeatures(updateFeatures, cur_features, "update", log) and the return:
\* at most one chunk here, which the service applies or rejects as a whole
\* (it rejects a chunk with a value a field cannot hold); the result of
\* editFeatures is not looked at
FsWrite ==
  /\ backend = "fs" /\ pc = "fs_rows" /\ cursor = <<>>
  /\ \/ /\ \A u \in Range(updateFeatures) : field_accepts(u.att)
        /\ cur_features' = applyUpdates(cur_features, updateFeatures)
     \/ /\ Len(updateFeatures) > 0
        /\ cur_features' = cur_features
  /\ pc' = "done"
  /\ UNCHANGED auxVars
  /\ UNCHANGED << backend, schema, new_features, cur_features0, tempTable, null_records,
                  all_ids, att_dict, cursor, updateFeatures, update_count, del_count,
                  editVars >>

\* ---- remove_dups_fc -----------------------------------------------------
\* the dictionary of the most recent report of every id, built over the
\* rows of the working table in cursor order
RECURSIVE build_dict(_, _, _)
build_dict(rows, dict, field_type) ==
  IF rows = <<>> THEN dict
  ELSE LET csvrow == Head(rows)
           idVal == cast_id(csvrow.id, field_type)
           next ==
             IF csvrow.id = None \/ csvrow.dt = None THEN dict
             ELSE IF idVal \in DOMAIN dict
               THEN IF compare_dates_fc(csvrow, dict[idVal])
                      THEN [dict EXCEPT ![idVal] = update_dictionary_fc(csvrow, @)]
                      ELSE dict
             ELSE [k \in DOMAIN dict \cup { idVal } |->
                     IF k = idVal THEN update_dictionary_fc(csvrow, <<>>) ELSE dict[k]]
       IN build_dict(Tail(rows), next, field_type)

\* whether compare_dates_fc raises ValueError in the first loop: the dates
\* of a row and of the dictionary entry of its id are parsed when the id is
\* met again
RECURSIVE build_dict_raises(_, _, _)
build_dict_raises(rows, dict, field_type) ==
  IF rows = <<>> THEN FALSE
  ELSE LET csvrow == Head(rows)
           idVal == cast_id(csvrow.id, field_type)
       IN \/ /\ csvrow.id # None /\ csvrow.dt # None
             /\ idVal \in DOMAIN dict
             /\ strptime_raises(csvrow.dt) \/ strptime_raises(dict[idVal].dt)
          \/ build_dict_raises(Tail(rows), build_dict(<< csvrow >>, dict, field_type),
                               field_type)

\* the first loop and the opening of the cursor on the feature class; with
\* one key the where clause subscripts att_dict.keys(), which raises
FcBuildDict ==
  /\ backend = "fc" /\ pc = "start"
  /\ LET dict == build_dict(tempTable, <<>>, schema.idType)
     IN /\ att_dict' = dict
        /\ null_records' = NullRows(tempTable)
        /\ IF build_dict_raises(tempTable, <<>>, schema.idType)
             THEN pc' = "ValueError" /\ cursor' = <<>>
           ELSE IF Cardinality(DOMAIN dict) = 0
             THEN pc' = "fc_rows" /\ cursor' = <<>>
           ELSE IF Cardinality(DOMAIN dict) = 1
             THEN pc' = "aborted" /\ cursor' = <<>>
           ELSE /\ pc' = "fc_rows"
                /\ cursor' = SelectSeq(cur_features, LAMBDA f : f.id \in DOMAIN dict)
  /\ UNCHANGED auxVars
  /\ UNCHANGED << backend, schema, new_features, cur_features0, tempTable, cur_features,
                  all_ids, updateFeatures, update_count, del_count, editVars >>

\* the feature class row with the values of the dictionary entry; a date
\* text is stored as the datetime it denotes
updateRow(fcrow, id_vals) ==
  [oid |-> fcrow.oid, id |-> id_vals.id, dt |-> << to_datetime(id_vals.dt) >>,
   loc |-> id_vals.loc, att |-> id_vals.att]

\* one iteration of "for fcrow in fcrows"
FcRow ==
  /\ backend = "fc" /\ pc = "fc_rows" /\ cursor # <<>>
  /\ LET fcrow == Head(cursor)
         idVal == cast_id(fcrow.id, schema.idType)
     IN IF idVal \notin DOMAIN att_dict
          THEN UNCHANGED << att_dict, cur_features, update_count, pc >>
        ELSE IF strptime_raises(att_dict[idVal].dt)
          THEN /\ pc' = "ValueError"
               /\ UNCHANGED << att_dict, cur_features, update_count >>
        ELSE IF compare_dates_fc(fcrow, att_dict[idVal])
          THEN /\ att_dict' = [att_dict EXCEPT ![idVal] = update_dictionary_fc(fcrow, @)]
               /\ UNCHANGED << cur_features, update_count, pc >>
        ELSE IF compare_locations_fc(fcrow, att_dict[idVal])
          THEN /\ cur_features' = SelectSeq(cur_features, LAMBDA f : f.oid # fcrow.oid)
               /\ UNCHANGED << att_dict, update_count, pc >>
        ELSE IF ~ field_accepts(att_dict[idVal].att)
          \* updateRow raises RuntimeError: the row is deleted instead
          THEN /\ cur_features' = SelectSeq(cur_features, LAMBDA f : f.oid # fcrow.oid)
               /\ UNCHANGED << att_dict, update_count, pc >>
        ELSE /\ pc' = pc
             /\ cur_features' =
                  [i \in 1..Len(cur_features) |->
                     IF cur_features[i].oid = fcrow.oid
                       THEN updateRow(fcrow, att_dict[idVal]) ELSE cur_features[i]]
             /\ update_count' = update_count + 1
             /\ att_dict' = [k \in DOMAIN att_dict \ { idVal } |-> att_dict[k]]
  /\ cursor' = Tail(cursor)
  /\ UNCHANGED auxVars
  /\ UNCHANGED << backend, schema, new_features, cur_features0, tempTable, null_records,
                  all_ids, updateFeatures, del_count, editVars >>

\* the date of a row or of a dictionary entry as the clean-up loop compares
\* it: a text is parsed and cut to the second, anything else is left as it is
cleanup_date(v) ==
  IF v = None THEN None
  ELSE IF Len(v) = 1 THEN v
  ELSE << replace_microsecond(strptime(v)) >>

\* the clean-up loop over the working table; acc carries the rows kept, the
\* count of rows deleted, whether cast_id raised and whether strptime did
RECURSIVE clean_up(_, _, _, _)
clean_up(rows, dict, field_type, acc) ==
  IF rows = <<>> THEN acc
  ELSE LET updaterow == Head(rows)
           idVal == cast_id(updaterow.id, field_type)
       IN IF cast_id_raises(updaterow.id, field_type)
            THEN [acc EXCEPT !.raised = TRUE, !.tempTable = @ \o rows]
          ELSE IF /\ idVal \in DOMAIN dict
                  /\ strptime_raises(updaterow.dt) \/ strptime_raises(dict[idVal].dt)
            THEN [acc EXCEPT !.bad_date = TRUE, !.tempTable = @ \o rows]
          ELSE IF idVal \in DOMAIN dict /\ cleanup_date(dict[idVal].dt) = cleanup_date(updaterow.dt)
            THEN clean_up(Tail(rows), dict, field_type,
                          [acc EXCEPT !.tempTable = Append(@, updaterow)])
          ELSE clean_up(Tail(rows), dict, field_type,
                        [acc EXCEPT !.del_count = @ + 1])

\* the clean-up loop and the return of del_count - update_count
FcCleanup ==
  /\ backend = "fc" /\ pc = "fc_rows" /\ cursor = <<>>
  /\ LET acc == clean_up(tempTable, att_dict, schema.idType,
                         [tempTable |-> <<>>, del_count |-> 0, raised |-> FALSE,
                          bad_date |-> FALSE])
     IN /\ tempTable' = acc.tempTable
        /\ IF acc.raised
             THEN pc' = "aborted" /\ del_count' = acc.del_count
           ELSE IF acc.bad_date
             THEN pc' = "ValueError" /\ del_count' = acc.del_count
             ELSE pc' = "done" /\ del_count' = acc.del_count - update_count
  /\ UNCHANGED auxVars
  /\ UNCHANGED << backend, schema, new_features, cur_features0, cur_features, null_records,
                  all_ids, att_dict, cursor, updateFeatures, update_count, editVars >>

Next == FsPrep \/ FsRow \/ FsWrite \/ FcBuildDict \/ FcRow \/ FcCleanup

Spec == Init /\ [][Next]_vars

\* the same passes over batches with faulty values
SpecFaulty == InitFaulty /\ [][Next]_vars

\* ---- vocabulary of the properties ---------------------------------------
Done == pc = "done"
NullOids == NullRows(new_features)

\* the rows of the batch with an id and a date
ValidRows == { r \in Range(new_features) : r.id # None /\ r.dt # None }
RowsOf(i) == { r \in ValidRows : r.id = i }
Second(v) == replace_microsecond(to_datetime(v))

\* ids held by exactly one record of the store before the pass and by at
\* least one complete row of the batch
SharedIds ==
  { i \in { f.id : f \in Range(cur_features0) } :
      /\ Cardinality({ f \in Range(cur_features0) : f.id = i }) = 1
      /\ RowsOf(i) # {} }
StoreRow0(i) == CHOOSE f \in Range(cur_features0) : f.id = i

\* type-tolerant equality of two location values
SameLocation(a, b) == strip_commas(upper(a)) = strip_commas(upper(b))

TableIds == { tempTable[k].id : k \in 1..Len(tempTable) }
QueuedFor(f) == { j \in 1..Len(updateFeatures) : updateFeatures[j].oid = f.oid }
Untouched(f) == f \in Range(cur_features) /\ QueuedFor(f) = {}

\* C1: when the pass returns, no two rows left in the working table have the
\* same cast identifier and no row left has the identifier of a record still
\* in the store.
C1_UniqueIds ==
  Done =>
    /\ \A j, k \in 1..Len(tempTable) :
         j # k => str(tempTable[j].id) # str(tempTable[k].id)
    /\ \A j \in 1..Len(tempTable) : \A f \in Range(cur_features) :
         str(tempTable[j].id) # str(f.id)

\* C2: an id whose batch rows are all older (to the second) than its store
\* record: the rows are gone from the working table, the store record is
\* neither deleted nor updated, and the delete count covers the rows.
OlderIds ==
  { i \in SharedIds : \A r \in RowsOf(i) : Second(r.dt) < Second(StoreRow0(i).dt) }

MovedIds ==
  { i \in SharedIds : \A r \in RowsOf(i) :
      /\ Second(r.dt) >= Second(StoreRow0(i).dt)
      /\ ~ SameLocation(r.loc, StoreRow0(i).loc) }

PatchedIds ==
  { i \in SharedIds : \A r \in RowsOf(i) :
      /\ Second(r.dt) = Second(StoreRow0(i).dt)
      /\ SameLocation(r.loc, StoreRow0(i).loc)
      /\ r.att # StoreRow0(i).att }

C5_CountConservation ==
  (Done /\ NullOids = {}) =>
    Len(tempTable) + update_count + del_count + Cardinality(null_records)
      = Len(new_features)

\* C6: an id whose batch rows equal its store record in every matching
\* field: no update is queued, the store record is left as it is, the rows
\* are gone from the working table and counted in the delete count, and the
\* update count does not count them.
SameIds ==
  { i \in SharedIds : \A r \in RowsOf(i) : ValueToSet(r) = Vals(StoreRow0(i)) }

C6_TrueDuplicate ==
  Done =>
    /\ \A i \in SameIds : i \notin TableIds /\ Untouched(StoreRow0(i))
    /\ del_count >= Cardinality({ r \in ValidRows : r.id \in SameIds })
    /\ update_count <= Cardinality(SharedIds \ SameIds)

\* C7: an id with several batch rows one of which is later (to the second)
\* than all the others, and no record in the store: after the pass exactly
\* that row of the id is in the working table and the delete count covers
\* the others.
Latest(i) == { r \in RowsOf(i) : \A q \in RowsOf(i) : q # r => Second(q.dt) < Second(r.dt) }
StoreIds0 == { f.id : f \in Range(cur_features0) }
CollapsedIds ==
  { i \in { r.id : r \in ValidRows } \ StoreIds0 :
      Cardinality(RowsOf(i)) > 1 /\ Latest(i) # {} }

C7_LatestSurvives ==
  Done =>
    /\ \A i \in CollapsedIds :
         { r \in Range(tempTable) : r.id = i } = Latest(i)
    /\ del_count >= Cardinality({ r \in ValidRows : r.id \in CollapsedIds /\ r \notin Latest(r.id) })

\* C8: an id of which two or more batch rows share the latest timestamp (to
\* the second), and no record in the store: after the pass exactly the first
\* of those rows is in the working table.
Top(i) == { r \in RowsOf(i) : \A q \in RowsOf(i) : Second(q.dt) <= Second(r.dt) }
TiedIds ==
  { i \in { r.id : r \in ValidRows } \ StoreIds0 : Cardinality(Top(i)) > 1 }
FirstOf(S) == CHOOSE r \in S : \A q \in S : r.oid <= q.oid

C8_TieKeepsFirst ==
  Done =>
    \A i \in TiedIds : { r \in Range(tempTable) : r.id = i } = { FirstOf(Top(i)) }

\* C9: when the pass returns, every batch row with a null id or a null date
\* is out of the working table and listed in the null report; while store
\* records are being compared no such row is a candidate for comparison.
C9_NullsRejected ==
  /\ pc \in { "fs_rows", "fc_rows", "done" } => NullOids \subseteq null_records
  /\ pc = "fs_rows" => \A r \in Range(tempTable) : r.oid \notin NullOids
  /\ Done => \A r \in Range(tempTable) : r.oid \notin NullOids

\* ---- editFeatures -------------------------------------------------------
\* what the service answers to one edit_features request:
\*   ok        every item succeeded, the chunk is stored
\*   error     the items of the chunk report an error, nothing is stored
\*   malformed the answer holds no result list, nothing is stored
\*   raised    the request raised, nothing is stored
Outcomes == { "ok", "error", "malformed", "raised" }

chunk == IF numFeat > ChunkSize THEN ChunkSize ELSE numFeat

InitEdit ==
  /\ backend = "fs"
  /\ schema = [idType |-> "Integer", dtKind |-> "Date"]
  /\ new_features = <<>> /\ cur_features0 = <<>> /\ tempTable = <<>>
  /\ cur_features = <<>> /\ null_records = {} /\ all_ids = <<>> /\ att_dict = <<>>
  /\ cursor = <<>> /\ updateFeatures = <<>> /\ update_count = 0 /\ del_count = 0
  /\ pc = "idle"
  /\ numFeat \in 0..MaxFeat
  /\ mode \in { "add", "update" }
  /\ featuresProcessed = 0
  /\ results = <<>>
  /\ committed = 0
  /\ retval = FALSE
  /\ error = FALSE
  /\ epc = "start"
  /\ RunIdle /\ FnIdle /\ SvcIdle /\ first_pass = None

\* the length check left out: an empty list falls through to the loop
EditStart_no_check ==
  /\ epc = "start"
  /\ retval' = retval /\ epc' = "loop"
  /\ UNCHANGED auxVars
  /\ UNCHANGED << passVars, numFeat, mode, featuresProcessed, results, committed, error >>

\* the length check: nothing to add is OK
EditStart ==
  /\ epc = "start"
  /\ IF numFeat = 0 THEN retval' = TRUE /\ epc' = "done"
                    ELSE retval' = retval /\ epc' = "loop"
  /\ UNCHANGED auxVars
  /\ UNCHANGED << passVars, numFeat, mode, featuresProcessed, results, committed, error >>

\* the inspection of a result: result['addResults'][-1]['error'] is looked
\* at in either mode; an update result has an empty addResults list
detected(m, outcome) ==
  \/ outcome = "malformed"
  \/ outcome = "error" /\ m = "add"

\* one iteration of the while loop
EditChunk ==
  /\ epc = "loop" /\ featuresProcessed < numFeat /\ error = FALSE
  /\ \E outcome \in Outcomes :
       LET next == featuresProcessed + chunk
           sent == IF next > numFeat THEN numFeat - featuresProcessed ELSE chunk
       IN /\ results' = Append(results, outcome)
          /\ committed' = IF outcome = "ok" THEN committed + sent ELSE committed
          /\ IF outcome = "raised"
               THEN /\ retval' = FALSE /\ error' = TRUE
                    /\ featuresProcessed' = featuresProcessed
                    /\ epc' = "done"
               ELSE /\ retval' = ~ detected(mode, outcome)
                    /\ error' = detected(mode, outcome)
                    /\ featuresProcessed' = next
                    /\ epc' = "loop"
  /\ UNCHANGED auxVars
  /\ UNCHANGED << passVars, numFeat, mode >>

\* the loop condition fails: return retval
EditReturn ==
  /\ epc = "loop" /\ ~ (featuresProcessed < numFeat /\ error = FALSE)
  /\ epc' = "done"
  /\ UNCHANGED auxVars
  /\ UNCHANGED << passVars, numFeat, mode, featuresProcessed, results, committed,
                  retval, error >>

NextEdit == EditStart \/ EditChunk \/ EditReturn

SpecEdit == InitEdit /\ [][NextEdit]_vars

\* C10: N records are written in ceil(N / 100) requests when no chunk
\* fails; when the k-th chunk is the first to fail, the records accounted as
\* written and the records the store holds are the (k-1)*C of the earlier
\* chunks, whatever the later chunks would have returned.
CeilDiv(n, d) == (n + d - 1) \div d
Failed == { k \in 1..Len(results) : results[k] # "ok" }
FirstFailed == CHOOSE k \in Failed : \A j \in Failed : k <= j

C10_Chunking ==
  epc = "done" =>
    /\ Failed = {} => Len(results) = CeilDiv(numFeat, ChunkSize)
    /\ Failed # {} =>
         /\ featuresProcessed = (FirstFailed - 1) * chunk
         /\ committed = (FirstFailed - 1) * chunk

\* C11: once the result of a chunk reports a failure no later request is
\* issued and editFeatures returns False, whatever the earlier chunks did;
\* a run whose results all report no error returns True.
Reported == { k \in 1..Len(results) : results[k] \in { "error", "malformed" } }

C11_StopOnFailure ==
  epc = "done" =>
    /\ \A k \in Reported : k = Len(results) /\ retval = FALSE
    /\ (results # <<>> /\ \A k \in 1..Len(results) : results[k] = "ok") => retval = TRUE

\* C12: when editFeatures stops, its counter of processed records equals the
\* number of records in the requests that were issued, and never exceeds
\* the input size.
\* (a request that raised is not counted as issued)
Answered == Cardinality({ k \in 1..Len(results) : results[k] # "raised" })
Issued == IF Answered * chunk > numFeat THEN numFeat ELSE Answered * chunk

C12_ProcessedCount ==
  epc = "done" => featuresProcessed = Issued /\ featuresProcessed <= numFeat

\* C13: an empty feature list issues no request and returns True, in add
\* and in update mode.
C13_EmptyIsSuccess ==
  (epc = "done" /\ numFeat = 0) => results = <<>> /\ committed = 0 /\ retval = TRUE

C13_Witness == epc = "done" /\ numFeat = 0 /\ mode = "update" /\ retval = TRUE

\* C14: when the values of a same-location batch record cannot be written
\* to the store record because of a field-type mismatch, the store row of
\* the id is deleted, the batch record stays in the working table as an
\* insert candidate and the store keeps no partly updated record of the id.
MismatchIds ==
  { i \in SharedIds :
      \E r \in RowsOf(i) :
         /\ RowsOf(i) = { r }
         /\ ~ field_accepts(r.att)
         /\ r.dt \notin Unparseable
         /\ Second(r.dt) >= Second(StoreRow0(i).dt)
         /\ SameLocation(r.loc, StoreRow0(i).loc) }

C14_MismatchDeletes ==
  Done => \A i \in MismatchIds :
            /\ \A f \in Range(cur_features) : f.id # i
            /\ \E r \in Range(tempTable) : r.id = i

\* C15: a timestamp that cannot be parsed under the configured format fails
\* only the id of its record: the pass does not abort on it.
C15_BadDateIsolated == pc # "ValueError"

\* C15 as the code has it: a pass that completes has parsed no unparseable
\* timestamp.  The text is only left unparsed, and its record kept as an
\* insert candidate, in remove_dups_fs when the store holds no record of
\* the id; every other pass over such a record raises ValueError.
C15_BadDateAborts ==
  Done => \A r \in Range(tempTable) :
            r.dt \in Unparseable =>
              /\ backend = "fs"
              /\ \A f \in Range(cur_features0) : str(f.id) # str(r.id)

C15_Witness ==
  /\ pc = "ValueError"
  /\ backend = "fc"
  /\ \E r \in Range(new_features) : r.dt \in Unparseable
  /\ \E r \in Range(new_features) : r.dt \notin Unparseable

\* C16: when the batched update of remove_dups_fs is rejected, the pass
\* still completes, the update count leaves out the records whose update was
\* not applied, and the store rows of those records are deleted.
AppliedUpdates ==
  { j \in 1..Len(updateFeatures) : updateFeatures[j] \in Range(cur_features) }

C16_FailedWriteCleansUp ==
  (Done /\ backend = "fs") =>
    /\ update_count = Cardinality(AppliedUpdates)
    /\ \A j \in 1..Len(updateFeatures) :
         j \notin AppliedUpdates =>
           \A f \in Range(cur_features) : f.oid # updateFeatures[j].oid

\* C17: a record with a null id or a null date never aborts the pass,
\* whatever the type of the id field: the loop that meets the rows of the
\* working table again after the store is resolved runs to completion.
C17_NullsNeverAbort ==
  [][ (pc = "fc_rows" /\ cursor = <<>>) => pc' # "aborted" ]_vars

\* ---- the scripts: the configuration step and the import run -------------
\* the field names of the model: the id field, the address (location)
\* field, the report date field and the summary field
FieldNames == { "id", "addr", "rptdate", "summary" }

PassIdle ==
  /\ backend = "fs"
  /\ schema = [idType |-> "Integer", dtKind |-> "Date"]
  /\ new_features = <<>> /\ cur_features0 = <<>> /\ tempTable = <<>>
  /\ cur_features = <<>> /\ null_records = {} /\ all_ids = <<>> /\ att_dict = <<>>
  /\ cursor = <<>> /\ updateFeatures = <<>> /\ update_count = 0 /\ del_count = 0
  /\ pc = "idle"

\* the parameters of config_record_import_address.main: fms holds the source
\* fields the field mapping gives a target for
ConfigParams ==
  [fieldmap_option : { "Use Field Mapping", "" },
   fms : SUBSET FieldNames,
   incident_id : { "id" },
   address_field : { "addr" },
   report_date_field : { "", "rptdate" },
   summary_field : { "", "summary" },
   timestamp_format : { <<>>, <<"%Y-%m-%d">> }]

\* the configuration import_records.main reads and the field names of the
\* source table and of the target
ImportParams ==
  [delete_duplicates : BOOLEAN,
   incident_id : { "id" },
   address_field : { "addr" },
   report_date_field : { "", "rptdate" },
   summary_field : { "", "summary" },
   sourcefieldnames : SUBSET FieldNames,
   targetfieldnames : SUBSET FieldNames]

InitRun ==
  /\ PassIdle /\ EditIdle /\ FnIdle /\ SvcIdle /\ first_pass = None
  /\ script \in { "config", "import" }
  /\ params \in IF script = "config" THEN ConfigParams ELSE ImportParams
  /\ rpc = "start"
  /\ store_ops = <<>>
  /\ config_file = None

\* field_test with no field ever found missing
field_test_lenient(in_fields, out_fields, required) == FALSE

\* field_test: TRUE when it raises e2
field_test(in_fields, out_fields, required) ==
  \E k \in 1..Len(in_fields) :
     /\ in_fields[k] \notin out_fields
     /\ required \/ in_fields[k] # ""

\* the name the field mapping gives a source field in the target
target(f) ==
  CASE f = "id" -> "INCIDENTID"
    [] f = "addr" -> "ADDRESS"
    [] f = "rptdate" -> "REPORTED"
    [] f = "summary" -> "CATEGORY"

\* the number of fields "Use Field Mapping" finds without a target (city,
\* state and zip fields are not set in the model)
errorCount(p) ==
  (IF p.address_field \notin p.fms THEN 1 ELSE 0)
  + (IF p.summary_field # "" /\ p.summary_field \notin p.fms THEN 1 ELSE 0)
  + (IF p.report_date_field \notin p.fms THEN 1 ELSE 0)
  + (IF p.incident_id \notin p.fms THEN 1 ELSE 0)

\* config step: the validation of the field mapping; sys.exit() ends the
\* script (sys is not imported there, so the call raises NameError, which
\* ends it as well)
ConfigValidate ==
  /\ script = "config" /\ rpc = "start"
  /\ rpc' = IF params.fieldmap_option = "Use Field Mapping" /\ errorCount(params) > 0
              THEN "failed" ELSE "write"
  /\ UNCHANGED << passVars, editVars, fnVars, svcVars, first_pass, script, params, store_ops, config_file >>

\* config step: the values written to the configuration file
ConfigWrite ==
  /\ script = "config" /\ rpc = "write"
  /\ LET mapped(f) == IF params.fieldmap_option = "Use Field Mapping" /\ f # ""
                        THEN target(f) ELSE f
     IN config_file' =
          [incident_id |-> mapped(params.incident_id),
           report_date_field |-> mapped(params.report_date_field),
           summary_field |-> mapped(params.summary_field),
           address_field |-> mapped(params.address_field),
           timestamp_format |-> IF params.timestamp_format = <<>>
                                  THEN <<"%m/%d/%Y %H:%M">>
                                  ELSE params.timestamp_format]
  /\ rpc' = "finished"
  /\ UNCHANGED << passVars, editVars, fnVars, svcVars, first_pass, script, params, store_ops >>

\* import run: duplicate removal needs a report date field (e16)
MainDateCheck ==
  /\ script = "import" /\ rpc = "start"
  /\ rpc' = IF params.delete_duplicates /\ params.report_date_field = ""
              THEN "failed" ELSE "fields"
  /\ UNCHANGED << passVars, editVars, fnVars, svcVars, first_pass, script, params, store_ops, config_file >>

\* import run: the required and the optional field names are looked up in
\* the source table and in the target
MainFieldTest ==
  /\ script = "import" /\ rpc = "fields"
  /\ LET reqFields == << params.address_field, params.incident_id >>
         opFields == << "", "", "", params.summary_field, params.report_date_field >>
     IN rpc' = IF \/ field_test(reqFields, params.sourcefieldnames, TRUE)
                  \/ field_test(reqFields, params.targetfieldnames, TRUE)
                  \/ field_test(opFields, params.sourcefieldnames, FALSE)
                  \/ field_test(opFields, params.targetfieldnames, FALSE)
                 THEN "failed" ELSE "dedup"
  /\ UNCHANGED << passVars, editVars, fnVars, svcVars, first_pass, script, params, store_ops, config_file >>

\* import run: the reconciliation pass, which may delete and update records
\* of the store
MainRemoveDups ==
  /\ script = "import" /\ rpc = "dedup"
  /\ IF params.delete_duplicates
       THEN \E issued \in { <<>>, <<"delete">>, <<"update">>, <<"delete", "update">> } :
              store_ops' = store_ops \o issued
       ELSE store_ops' = store_ops
  /\ rpc' = "append"
  /\ UNCHANGED << passVars, editVars, fnVars, svcVars, first_pass, script, params, config_file >>

\* import run: the records left are inserted
MainAppend ==
  /\ script = "import" /\ rpc = "append"
  /\ \/ store_ops' = Append(store_ops, "insert")
     \/ store_ops' = store_ops
  /\ rpc' = "finished"
  /\ UNCHANGED << passVars, editVars, fnVars, svcVars, first_pass, script, params, config_file >>

NextRun ==
  \/ ConfigValidate \/ ConfigWrite
  \/ MainDateCheck \/ MainFieldTest \/ MainRemoveDups \/ MainAppend

SpecRun == InitRun /\ [][NextRun]_vars

\* C18: a validation error (duplicate removal without a report date field, a
\* required id or location field missing from the source or the target, or
\* under "Use Field Mapping" an id, date or summary field without a
\* mapping) stops the run before any store mutation is issued and before
\* the configuration file is written, with no default put in its place.
ValidationError ==
  \/ /\ script = "import"
     /\ \/ params.delete_duplicates /\ params.report_date_field = ""
        \/ \E f \in { params.incident_id, params.address_field } :
              f \notin params.sourcefieldnames \/ f \notin params.targetfieldnames
  \/ /\ script = "config"
     /\ params.fieldmap_option = "Use Field Mapping"
     /\ \E f \in { params.incident_id, params.report_date_field, params.summary_field } :
           f # "" /\ f \notin params.fms

C18_ValidationFirst ==
  ValidationError =>
    /\ store_ops = <<>>
    /\ config_file = None
    /\ rpc \in { "start", "fields", "failed" }

C18_Witness ==
  /\ script = "import" /\ rpc = "failed"
  /\ ~ (params.delete_duplicates /\ params.report_date_field = "")
  /\ params.incident_id \notin params.targetfieldnames

\* ---- the comparison functions called on their own -----------------------
LocValues ==
  { "MAIN ST", "main st", "OAK AV", "1,000 OAK AV", "1000 OAK AV", "1,000", "1000",
    "1000.0" }
DateValues == NativeDates \cup StringDates

LocFns == { "compare_locations_fs", "compare_locations_fc" }
DateFns == { "remove_dups_fs", "compare_dates_fc", "clean_up", "compare_dates" }

\* the first argument is the value of the batch record (spreadsheet row or
\* dictionary entry), the second the value of the store record; the service
\* hands its dates out as native values
CastFns == { "cast_id", "cast_id_scripts" }

\* an epoch value in milliseconds, written as the sequence of its decimal
\* digits (str(ms)): zero, and for every length up to MaxDigits nine values
\* with different digits
MsDigits(n, d) == [k \in 1..n |-> IF k = 1 THEN d ELSE (d + k) % 10]
MsValues == { <<0>> } \cup { MsDigits(n, d) : n \in 1..MaxDigits, d \in 1..9 }

\* int(str(ms)[:10]): the number the first ten digits denote
first_10_digits(ms) == SubSeq(ms, 1, IF Len(ms) < 10 THEN Len(ms) ELSE 10)

\* the values handed to cast_id, each with its Python type, and the types
\* of the id field
CastValues ==
  { None, <<"int", "1042">>, <<"float", "1042.0">>, <<"str", "1042">>,
    <<"str", "1042.0">>, <<"str", "A-17">> }
FieldTypes == { <<"String">>, <<"Integer">>, <<"Double">> }

FnArgs(f) ==
  IF f = "fromtimestamp" THEN MsValues \X { <<>> }
  ELSE IF f \in CastFns THEN CastValues \X FieldTypes
  ELSE IF f \in LocFns THEN LocValues \X LocValues
  ELSE IF f = "remove_dups_fs" THEN DateValues \X NativeDates
  ELSE DateValues \X DateValues

InitFn ==
  /\ PassIdle /\ EditIdle /\ RunIdle /\ SvcIdle /\ first_pass = None
  /\ fn \in LocFns \cup DateFns \cup CastFns \cup { "fromtimestamp" }
  /\ fn_args \in FnArgs(fn)
  /\ fn_out = <<>>

\* remove_dups_fs and remove_dups_fc: has the location changed
CallCompareLocationsFs ==
  /\ fn = "compare_locations_fs" /\ fn_out = <<>>
  /\ fn_out' = << compare_locations_fs([loc |-> fn_args[2]], [loc |-> fn_args[1]]) >>
  /\ UNCHANGED << passVars, editVars, runVars, svcVars, first_pass, fn, fn_args >>

CallCompareLocationsFc ==
  /\ fn = "compare_locations_fc" /\ fn_out = <<>>
  /\ fn_out' = << compare_locations_fc([loc |-> fn_args[2]], [loc |-> fn_args[1]]) >>
  /\ UNCHANGED << passVars, editVars, runVars, svcVars, first_pass, fn, fn_args >>

\* remove_dups_fs: is the spreadsheet record older than the service record
CallCsvOlder ==
  /\ fn = "remove_dups_fs" /\ fn_out = <<>>
  /\ fn_out' = << csv_older([dt |-> fn_args[1]], [dt |-> fn_args[2]]) >>
  /\ UNCHANGED << passVars, editVars, runVars, svcVars, first_pass, fn, fn_args >>

\* remove_dups_fc: is the store row more recent than the dictionary entry
CallCompareDatesFc ==
  /\ fn = "compare_dates_fc" /\ fn_out = <<>>
  /\ fn_out' = << compare_dates_fc([dt |-> fn_args[2]], [dt |-> fn_args[1]]) >>
  /\ UNCHANGED << passVars, editVars, runVars, svcVars, first_pass, fn, fn_args >>

\* the clean-up loop of remove_dups_fc: does the date of the row differ from
\* the date of the dictionary entry
CallCleanUp ==
  /\ fn = "clean_up" /\ fn_out = <<>>
  /\ fn_out' = << cleanup_date(fn_args[2]) # cleanup_date(fn_args[1]) >>
  /\ UNCHANGED << passVars, editVars, runVars, svcVars, first_pass, fn, fn_args >>

\* the legacy remove_dups: is the store row more recent than the dictionary
\* entry
CallCompareDates ==
  /\ fn = "compare_dates" /\ fn_out = <<>>
  /\ fn_out' = << compare_dates([dt |-> fn_args[2]], [dt |-> fn_args[1]]) >>
  /\ UNCHANGED << passVars, editVars, runVars, svcVars, first_pass, fn, fn_args >>

\* cast_id of import_records.py; an exception that leaves the function is
\* written <<"raise", its type>>
CallCastId ==
  /\ fn = "cast_id" /\ fn_out = <<>>
  /\ fn_out' = << IF cast_id_raises(fn_args[1], fn_args[2][1])
                    THEN <<"raise", "TypeError">>
                    ELSE cast_id(fn_args[1], fn_args[2][1]) >>
  /\ UNCHANGED << passVars, editVars, runVars, svcVars, first_pass, fn, fn_args >>

CallCastIdScripts ==
  /\ fn = "cast_id_scripts" /\ fn_out = <<>>
  /\ fn_out' = << IF cast_id_raises(fn_args[1], fn_args[2][1])
                    THEN <<"raise", "TypeError">>
                    ELSE cast_id_scripts(fn_args[1], fn_args[2][1]) >>
  /\ UNCHANGED << passVars, editVars, runVars, svcVars, first_pass, fn, fn_args >>

\* remove_dups_fs: the seconds handed to dt.fromtimestamp for the date of a
\* service record
CallFromTimestamp ==
  /\ fn = "fromtimestamp" /\ fn_out = <<>>
  /\ fn_out' = << first_10_digits(fn_args[1]) >>
  /\ UNCHANGED << passVars, editVars, runVars, svcVars, first_pass, fn, fn_args >>

NextFn ==
  \/ CallFromTimestamp
  \/ CallCompareLocationsFs \/ CallCompareLocationsFc
  \/ CallCsvOlder \/ CallCompareDatesFc \/ CallCleanUp \/ CallCompareDates
  \/ CallCastId \/ CallCastIdScripts

SpecFn == InitFn /\ [][NextFn]_vars

\* C19: every implementation cuts both timestamps to the second before it
\* compares them: two timestamps of the same second are never ordered as
\* older and newer and never taken as unequal.
C19_SecondsOnly ==
  (fn \in DateFns /\ fn_out # <<>> /\ Second(fn_args[1]) = Second(fn_args[2]))
    => fn_out = << FALSE >>

\* C20: compare_locations_fs and compare_locations_fc report a changed
\* location exactly when the two values differ under type-tolerant equality:
\* an integral float as its integer, thousands separators ignored, letters
\* without regard to case.
TolerantForm(v) == strip_commas(upper(int_of(v)))

C20_TolerantLocations ==
  (fn \in LocFns /\ fn_out # <<>>)
    => fn_out = << TolerantForm(fn_args[1]) # TolerantForm(fn_args[2]) >>

\* C21: cast_id returns the string form of the value for a string-like
\* kind; for any other kind the integer of every value that denotes a whole
\* number (the text "1042.0" included) and the string form when the value
\* denotes none; it raises for no value, null included.
WholeValues ==
  { <<"int", "1042">>, <<"float", "1042.0">>, <<"str", "1042">>, <<"str", "1042.0">> }

C21_CastId ==
  (fn \in CastFns /\ fn_out # <<>>) =>
    LET value == fn_args[1]
        kind == fn_args[2][1]
        out == fn_out[1]
    IN /\ out[1] # "raise"
       /\ kind = "String" => out = str(value)
       /\ (kind # "String" /\ value \in WholeValues) => out = <<"int", "1042">>
       /\ (kind # "String" /\ value \notin WholeValues) => out = str(value)

\* C22: a pass never deletes or updates a store record whose id does not
\* occur in the batch; and of an id the store does not hold, a record of the
\* batch is left in the working table, with the field values it came with.
BatchIds == { str(r.id) : r \in { x \in Range(new_features) : x.id # None } }
ForeignRows == { f \in Range(cur_features0) : str(f.id) \notin BatchIds }
NewIds ==
  { str(r.id) : r \in ValidRows } \ { str(f.id) : f \in Range(cur_features0) }

FloorDiv1000(ms) == IF Len(ms) <= 3 THEN <<0>> ELSE SubSeq(ms, 1, Len(ms) - 3)

C23_EpochSeconds ==
  (fn = "fromtimestamp" /\ fn_out # <<>>) => fn_out = << FloorDiv1000(fn_args[1]) >>

\* C24: in update mode editFeatures detects a per-item error in the result
\* of a chunk, sends no further chunk and returns False; after a chunk that
\* succeeded the next chunk is sent.
C24_UpdateDiscipline ==
  (epc = "done" /\ mode = "update") =>
    /\ \A k \in 1..Len(results) :
         results[k] = "error" => (k = Len(results) /\ error = TRUE /\ retval = FALSE)
    /\ (\A k \in 1..Len(results) : results[k] = "ok")
         => Len(results) = CeilDiv(numFeat, ChunkSize)

\* ---- the chunked helpers of featureservicetools --------------------------
MaxOids == 6
MaxChunk == 3

Helpers == { "DeleteFeaturesFromFeatureLayer", "AddFeaturesToFeatureLayer",
             "RemoveAndAddFeatures" }

\* the object ids of the features the helper works on
oids == 1..featCount

\* what the requests of kind op that the service answered have covered
Covered(op) ==
  UNION { requests[k].ids : k \in { j \in 1..Len(requests) : requests[j].op = op } }

\* deleteFeatures / addFeatures: the answer carries the results or it does not
Answers == { "results", "other" }

InitSvc ==
  /\ PassIdle /\ EditIdle /\ RunIdle /\ FnIdle /\ first_pass = None
  /\ helper \in Helpers
  /\ featCount \in 0..MaxOids
  /\ chunksize \in 1..MaxChunk
  /\ (helper = "AddFeaturesToFeatureLayer" => featCount >= 1)
  /\ idx = 0 /\ idlist = {} /\ requests = <<>> /\ totalDeleted = 0
  /\ hpc = "start"

\* oids[i:i+chunksize]
oidsDelete(i) == { o \in oids : i < o /\ o <= i + chunksize }

\* the query for the matching object ids
DeleteQuery ==
  /\ helper = "DeleteFeaturesFromFeatureLayer" /\ hpc = "start"
  /\ hpc' = IF featCount = 0 THEN "done" ELSE "loop"
  /\ UNCHANGED << passVars, editVars, runVars, fnVars, first_pass, helper, featCount,
                  chunksize, idx, idlist, requests, totalDeleted >>

\* one turn of while(i <= len(oids)), the test of the loop included; the
\* turn that finds nothing to delete goes on to the next turn with the same i
DeleteLoop ==
  /\ helper = "DeleteFeaturesFromFeatureLayer" /\ hpc = "loop"
  /\ IF idx <= featCount
       THEN IF oidsDelete(idx) = {}
              THEN UNCHANGED << idx, requests, totalDeleted, hpc >>
              ELSE \E a \in Answers :
                     /\ requests' = Append(requests,
                                      [op |-> "delete", ids |-> oidsDelete(idx), answer |-> a])
                     /\ IF a = "results"
                          THEN /\ totalDeleted' = totalDeleted + Cardinality(oidsDelete(idx))
                               /\ idx' = idx + chunksize
                               /\ hpc' = hpc
                          ELSE /\ hpc' = "done"
                               /\ UNCHANGED << idx, totalDeleted >>
       ELSE /\ hpc' = "requery"
            /\ UNCHANGED << idx, requests, totalDeleted >>
  /\ UNCHANGED << passVars, editVars, runVars, fnVars, first_pass, helper, featCount,
                  chunksize, idlist >>

\* the second query and the delete by where clause of what is left
DeleteRest ==
  /\ helper = "DeleteFeaturesFromFeatureLayer" /\ hpc = "requery"
  /\ LET left == oids \ Covered("delete")
     IN IF left = {}
          THEN UNCHANGED << requests, totalDeleted >>
          ELSE \E a \in Answers :
                 /\ requests' = Append(requests, [op |-> "delete", ids |-> left, answer |-> a])
                 /\ totalDeleted' = IF a = "results" THEN totalDeleted + Cardinality(left)
                                    ELSE totalDeleted
  /\ hpc' = "done"
  /\ UNCHANGED << passVars, editVars, runVars, fnVars, first_pass, helper, featCount,
                  chunksize, idx, idlist >>

\* range(minOID, maxOID)[0:-1:chunksize] followed by maxOID + 1
breaks(minOID, maxOID, c) ==
  LET L == maxOID - minOID
      k == IF L >= 2 THEN (L - 1 + c - 1) \div c ELSE 0
  IN [j \in 1..(k + 1) |-> IF j <= k THEN minOID + (j - 1) * c ELSE maxOID + 1]

\* the cursors for the smallest and the largest object id, the break points
AddStart ==
  /\ helper = "AddFeaturesToFeatureLayer" /\ hpc = "start"
  /\ idx' = 1
  /\ hpc' = "loop"
  /\ UNCHANGED << passVars, editVars, runVars, fnVars, first_pass, helper, featCount,
                  chunksize, idlist, requests, totalDeleted >>

\* for expr in exprList: one addFeatures of the features of the expression
AddChunk ==
  /\ helper = "AddFeaturesToFeatureLayer" /\ hpc = "loop"
  /\ LET b == breaks(1, featCount, chunksize)
     IN IF idx <= Len(b) - 1
          THEN /\ \E a \in Answers :
                    requests' = Append(requests,
                      [op |-> "add", ids |-> { o \in oids : o >= b[idx] /\ o < b[idx + 1] },
                       answer |-> a])
               /\ idx' = idx + 1
               /\ hpc' = hpc
          ELSE /\ hpc' = "done"
               /\ UNCHANGED << idx, requests >>
  /\ UNCHANGED << passVars, editVars, runVars, fnVars, first_pass, helper, featCount,
                  chunksize, idlist, totalDeleted >>

\* the checks of the feature class and of the id field
RemoveAndAddStart ==
  /\ helper = "RemoveAndAddFeatures" /\ hpc = "start"
  /\ hpc' = "loop"
  /\ UNCHANGED << passVars, editVars, runVars, fnVars, first_pass, helper, featCount,
                  chunksize, idx, idlist, requests, totalDeleted >>

\* one row of the cursor: its id joins idlist; a full idlist is deleted from
\* the service and added again, an answer with 'error' raises
RemoveAndAddRow ==
  /\ helper = "RemoveAndAddFeatures" /\ hpc = "loop" /\ idx < featCount
  /\ idx' = idx + 1
  /\ LET ids == idlist \cup { idx + 1 }
     IN IF Cardinality(ids) >= chunksize
          THEN \E d \in { "results", "error" }, a \in { "results", "error" } :
                 LET del == [op |-> "delete", ids |-> ids, answer |-> d]
                     add == [op |-> "add", ids |-> ids, answer |-> a]
                 IN IF d = "error"
                      THEN /\ requests' = Append(requests, del)
                           /\ idlist' = ids
                           /\ hpc' = "raised"
                      ELSE /\ requests' = Append(Append(requests, del), add)
                           /\ idlist' = IF a = "error" THEN ids ELSE {}
                           /\ hpc' = IF a = "error" THEN "raised" ELSE hpc
          ELSE /\ idlist' = ids
               /\ UNCHANGED << requests, hpc >>
  /\ UNCHANGED << passVars, editVars, runVars, fnVars, first_pass, helper, featCount,
                  chunksize, totalDeleted >>

\* after the cursor: results is read, which no request has bound when no
\* chunk was full
RemoveAndAddEnd ==
  /\ helper = "RemoveAndAddFeatures" /\ hpc = "loop" /\ idx = featCount
  /\ hpc' = IF requests = <<>> THEN "raised" ELSE "done"
  /\ UNCHANGED << passVars, editVars, runVars, fnVars, first_pass, helper, featCount,
                  chunksize, idx, idlist, requests, totalDeleted >>

NextSvc ==
  \/ DeleteQuery \/ DeleteLoop \/ DeleteRest
  \/ AddStart \/ AddChunk
  \/ RemoveAndAddStart \/ RemoveAndAddRow \/ RemoveAndAddEnd

SpecSvc == InitSvc /\ [][NextSvc]_vars

\* the helper runs on: whenever it can take a step that changes its state,
\* it takes one
SpecSvcLive == InitSvc /\ [][NextSvc]_vars /\ WF_vars(NextSvc)

\* every delete request sent so far returned deleteResults
AllResults == \A k \in 1..Len(requests) : requests[k].answer = "results"

\* C25: a call of DeleteFeaturesFromFeatureLayer with chunksize > 0 comes to
\* an end for every number of matching object ids, an exact multiple of
\* chunksize included, and when every delete request returned deleteResults
\* the total it reports is the number of features that matched
C25_DeleteTerminates ==
  /\ (helper = "DeleteFeaturesFromFeatureLayer") => <>(hpc = "done")
  /\ []((helper = "DeleteFeaturesFromFeatureLayer" /\ hpc = "done" /\ AllResults)
          => totalDeleted = featCount)

\* C26: AddFeaturesToFeatureLayer with chunksize C > 0 sends every feature in
\* exactly one add request, for every number of features from 1 on, and no
\* request covers more than C object ids
C26_AddPartition ==
  (helper = "AddFeaturesToFeatureLayer" /\ hpc = "done") =>
    /\ \A o \in oids :
         Cardinality({ k \in 1..Len(requests) : o \in requests[k].ids }) = 1
    /\ \A k \in 1..Len(requests) : Cardinality(requests[k].ids) <= chunksize

\* C30: RemoveAndAddFeatures with chunk size C on N features deletes and adds
\* again every feature: each feature id is in exactly one delete request,
\* which the add request of the same ids follows at once, the last group of
\* fewer than C ids and N < C included
C30_RemoveThenAdd ==
  (helper = "RemoveAndAddFeatures" /\ hpc \in { "done", "raised" } /\ AllResults) =>
    \A o \in oids :
      \E k \in 1..(Len(requests) - 1) :
        /\ requests[k].op = "delete" /\ o \in requests[k].ids
        /\ requests[k + 1].op = "add" /\ requests[k + 1].ids = requests[k].ids
        /\ \A j \in 1..Len(requests) :
             (o \in requests[j].ids /\ requests[j].op = "delete") => j = k

\* ---- passes over a store that holds several records of an id -------------
MaxMulti == 2

InitMulti ==
  /\ backend \in { "fs", "fc" }
  /\ schema \in Schemas
  /\ new_features \in { WithOid(q) : q \in SeqsUpTo(BatchRows(schema), MaxMulti) }
  /\ cur_features0 \in { WithOid(q) : q \in [1..MaxMulti -> StoreRows(schema)] }
  /\ tempTable = new_features
  /\ cur_features = cur_features0
  /\ null_records = {}
  /\ all_ids = <<>>
  /\ att_dict = <<>>
  /\ cursor = <<>>
  /\ updateFeatures = <<>>
  /\ update_count = 0
  /\ del_count = 0
  /\ pc = "start"
  /\ EditIdle
  /\ RunIdle /\ FnIdle /\ SvcIdle /\ first_pass = None

SpecMulti == InitMulti /\ [][Next]_vars

\* a record with the id of r is left in the working table or held by the store
Kept(r) ==
  \/ \E t \in Range(tempTable) : str(t.id) = str(r.id)
  \/ \E f \in Range(cur_features) : str(f.id) = str(r.id)

\* C27: a pass that completes loses no incident: for every record of the
\* batch with an id and a date, a record with that id is left in the working
\* table or the store holds one, whatever the store held, several records of
\* one id included
C27_NoIncidentLost == Done => \A r \in ValidRows : Kept(r)

\* ---- two passes over the same batch --------------------------------------
\* the store after the records left in the working table are added: every
\* record gets a new OBJECTID, a date text is stored as the datetime it
\* denotes
addFeatures(store, rows) ==
  store \o [k \in 1..Len(rows) |->
              [oid |-> Len(cur_features0) + k,
               id |-> rows[k].id,
               dt |-> IF rows[k].dt = None THEN None ELSE << to_datetime(rows[k].dt) >>,
               loc |-> rows[k].loc,
               att |-> rows[k].att]]

\* the queued updates are on the service
UpdatesApplied == cur_features = applyUpdates(cur_features, updateFeatures)

\* after a pass that completed and whose updates were applied, the records
\* left are added to the store and the pass is run again with the same batch
SecondPass ==
  /\ pc = "done" /\ first_pass = <<>>
  /\ UpdatesApplied
  /\ LET store == addFeatures(cur_features, tempTable)
     IN /\ first_pass' = << [tempTable |-> tempTable, update_count |-> update_count,
                             del_count |-> del_count, store |-> store] >>
        /\ cur_features' = store
  /\ tempTable' = new_features
  /\ null_records' = {}
  /\ all_ids' = <<>>
  /\ att_dict' = <<>>
  /\ cursor' = <<>>
  /\ updateFeatures' = <<>>
  /\ update_count' = 0
  /\ del_count' = 0
  /\ pc' = "start"
  /\ UNCHANGED << backend, schema, new_features, cur_features0, editVars, runVars,
                  fnVars, svcVars >>

NextTwice == FsPrep \/ FsRow \/ FsWrite \/ FcBuildDict \/ FcRow \/ FcCleanup \/ SecondPass

SpecTwice == Init /\ [][NextTwice]_vars

\* C28: after a pass, the application of its queued updates and the addition
\* of its insert candidates to the store, a second pass with the same batch
\* deletes no record of the store, changes no attribute and leaves no insert
\* candidate
C28_Idempotent ==
  (Done /\ first_pass # <<>>) =>
    /\ cur_features = first_pass[1].store
    /\ tempTable = <<>>

\* ---- the two back ends on the same batch and store -----------------------
\* after remove_dups_fs completed and its updates were applied, its outcome
\* is kept and remove_dups_fc is run on the same batch and the same store
OtherBackend ==
  /\ pc = "done" /\ first_pass = <<>> /\ backend = "fs"
  /\ UpdatesApplied
  /\ first_pass' = << [tempTable |-> tempTable, update_count |-> update_count,
                       del_count |-> del_count, store |-> cur_features] >>
  /\ backend' = "fc"
  /\ cur_features' = cur_features0
  /\ tempTable' = new_features
  /\ null_records' = {}
  /\ all_ids' = <<>>
  /\ att_dict' = <<>>
  /\ cursor' = <<>>
  /\ updateFeatures' = <<>>
  /\ update_count' = 0
  /\ del_count' = 0
  /\ pc' = "start"
  /\ UNCHANGED << schema, new_features, cur_features0, editVars, runVars, fnVars, svcVars >>

NextBoth == FsPrep \/ FsRow \/ FsWrite \/ FcBuildDict \/ FcRow \/ FcCleanup \/ OtherBackend

SpecBoth == Init /\ [][NextBoth]_vars

\* no two records of the batch with the same id have timestamps in the same
\* second
NoEqualTimestamps ==
  \A a, b \in ValidRows : (a.id = b.id /\ a # b) => Second(a.dt) # Second(b.dt)

OnePerId ==
  \A f, g \in Range(cur_features0) : str(f.id) = str(g.id) => f = g

\* the OBJECTIDs of a store and the OBJECTIDs of its records that differ
\* from the store before the pass
OidsOf(store) == { f.oid : f \in Range(store) }
ChangedIn(store) == { f.oid : f \in Range(store) \ Range(cur_features0) }

\* C29: for the same batch without equal-timestamp duplicates of an id and
\* the same store with at most one record per id, remove_dups_fs and
\* remove_dups_fc leave the same insert candidates, delete the same records
\* of the store, change the same records of the store and return the same
\* update count and delete count
C29_SameOutcome ==
  (Done /\ first_pass # <<>> /\ backend = "fc" /\ NoEqualTimestamps /\ OnePerId) =>
    /\ Range(tempTable) = Range(first_pass[1].tempTable)
    /\ OidsOf(cur_features) = OidsOf(first_pass[1].store)
    /\ ChangedIn(cur_features) = ChangedIn(first_pass[1].store)
    /\ update_count = first_pass[1].update_count
    /\ del_count = first_pass[1].del_count

====
